---- MODULE Spec2Model ----
(***************************************************************************)
(* Session / protocol layer and per-device recording pipeline of the Pi    *)
(* camera server: DeviceManager (device registry), VideoProcessor (one     *)
(* ffmpeg command and input stream per device) and the WebSocket gateway   *)
(* of PiCameraServer.  Every handler of the single-threaded event loop is  *)
(* one action; an async function is split at the awaits where control      *)
(* really returns to the event loop (fs.mkdir inside startRecording).      *)
(***************************************************************************)
EXTENDS Integers, Sequences, FiniteSets, TLC

\* ------------------------------------------------------------------ bounds
MaxInputs == 3       \* inputs of one run: connections + JPEG frames +
                     \* transcoder failures that no kill() caused
MaxCount == 2        \* saturation value of the restart counter
MaxTime == 2         \* the clock runs from 0 to MaxTime, in units of the
                     \* inactivity window
MaxCalls == 3        \* calls of one run that are recorded in `observed`
MaxPairFrames == 2   \* frames of one run with two devices

\* --------------------------------------------------------------- universes
DeviceIds == {"AA:BB:CC:DD:EE:FF"}
Keys      == {"key1"}                 \* values generateApiKey can return
NoKey     == ""                       \* header / query parameter absent
BadKey    == "bogus"                  \* a credential no device was given
NoDevice  == "none"                   \* undefined device id
NoSocket  == 0
NoProc    == 0
MaxInactive == 1                      \* maxInactiveTime: 24 hours, one clock unit

\* operationMode values POST /register accepts, the absent field and a value
\* it does not accept
Modes       == {"motion-triggered", "always-on", "continuous"}
NoMode      == ""
BadMode     == "turbo"
DefaultMode == "continuous"           \* config.defaultDeviceConfig.operationMode

Sockets == 1..MaxInputs
Procs   == 1..MaxInputs     \* every command is started for a frame or a failure

REGISTERED == "registered"
ONLINE     == "online"
STREAMING  == "streaming"
ASLEEP     == "asleep"
OFFLINE    == "offline"
DeviceStatus == {REGISTERED, ONLINE, STREAMING, ASLEEP, OFFLINE}

VARIABLES
  devices,          \* DeviceManager.devices: deviceId -> DeviceInfo
  apiKeyToDeviceId, \* DeviceManager.apiKeyToDeviceId
  readyState,       \* ws.readyState of every connection
  sockDev,          \* deviceId captured by the handlers of a device connection
  frontendClients,  \* PiCameraServer.frontendClients
  closeFrameReceived, \* connections whose peer has sent its close frame
  received,         \* number of JPEG frames received on a connection
  written,          \* frames of a connection handed to stream.write, in order
  starting,         \* message handlers suspended inside startRecording
  restarting,       \* restart calls suspended inside startRecording
  timers,           \* pending restart timeouts of handleRecordingError
  activeRecordings, \* VideoProcessor.activeRecordings: deviceId -> command
  recordingStreams, \* VideoProcessor.recordingStreams: deviceId -> stream
  procs,            \* the ffmpeg commands and their input streams
  failures,         \* transcoder failures not caused by kill(), per device
  restartAttempts,  \* startRecording calls made by the restart timer
  inputs,           \* inputs taken so far
  request,          \* the upgrade request under classification
  probe,            \* the payload under classification
  verdict,          \* what the message handler made of the probe
  now,              \* new Date(): the wall clock
  response,         \* per device, the body of the last POST /register
                    \* response (apiKey and config)
  forwarded,        \* binary frames sent to each frontend connection
  subscribed,       \* frontend connections that sent a subscribe message
  commandsSent,     \* commands DeviceManager.sendCommand put on each socket
  totalConnections, \* DeviceInfo.totalConnections of each device, followed in
                    \* SpecCounter
  observed          \* the last call observed: its name, arguments and result

vars == <<devices, apiKeyToDeviceId, readyState, sockDev, frontendClients,
          closeFrameReceived,
          received, written, starting, restarting, timers, activeRecordings,
          recordingStreams, procs, failures, restartAttempts, inputs, request,
          probe, verdict, now, response, forwarded, subscribed, commandsSent,
          totalConnections,
          observed>>

registryVars == <<devices, apiKeyToDeviceId>>
socketVars   == <<readyState, sockDev, frontendClients, closeFrameReceived>>
frameVars    == <<received, written, starting>>
pipeVars     == <<restarting, timers, activeRecordings, recordingStreams, procs>>
countVars    == <<failures, restartAttempts, inputs>>
viewerVars   == <<forwarded, subscribed>>
callVars     == <<commandsSent, totalConnections, observed>>
histVars     == <<now, response, viewerVars, callVars>>
auxVars      == <<request, probe, verdict, histVars>>

\* ----------------------------------------------------------------- helpers
Sat(n) == IF n < MaxCount THEN n + 1 ELSE n

FreeProc == [state |-> "none", dev |-> NoDevice, killed |-> FALSE, ended |-> FALSE,
             buffered |-> 0]

\* The part of the state the DeviceManager and VideoProcessor methods work on.
Cur == [devices |-> devices, readyState |-> readyState,
        active |-> activeRecordings, streams |-> recordingStreams,
        procs |-> procs, timers |-> timers, total |-> totalConnections]

\* A command that was built but never run and is referenced by nothing is
\* garbage: its slot is free again.
Collect(m) ==
  [m EXCEPT !.procs = [p \in Procs |->
      IF m.procs[p].state = "created" /\ \A d \in DOMAIN m.active : m.active[d] # p
      THEN FreeProc ELSE m.procs[p]]]

Commit(m) ==
  LET c == Collect(m) IN
  /\ devices' = c.devices
  /\ readyState' = c.readyState
  /\ activeRecordings' = c.active
  /\ recordingStreams' = c.streams
  /\ procs' = c.procs
  /\ timers' = c.timers

\* ------------------------------------------------------------ DeviceManager
Has(m, d) == d \in DOMAIN m.devices

\* variant: any presented key resolves once a device is registered
GetDeviceAnyKey(key) ==
  IF DOMAIN devices # {} THEN CHOOSE d \in DOMAIN devices : TRUE ELSE NoDevice

GetDevice(key) ==
  IF key \in DOMAIN apiKeyToDeviceId /\ apiKeyToDeviceId[key] \in DOMAIN devices
  THEN apiKeyToDeviceId[key] ELSE NoDevice

ValidateWebSocketApiKey(key) ==
  IF key = NoKey THEN FALSE ELSE GetDevice(key) # NoDevice

GetDeviceIdFromApiKey(key) == GetDevice(key)

\* variant: a status for an unknown id creates the entry
UpdateDeviceStatusUpsert(m, d, st) ==
  IF Has(m, d)
  THEN [m EXCEPT !.devices[d].status = st, !.devices[d].lastSeen = now]
  ELSE [m EXCEPT !.devices =
          [x \in DOMAIN m.devices \cup {d} |->
             IF x = d
             THEN [apiKey |-> NoKey, status |-> st, socket |-> NoSocket,
                   isRecording |-> FALSE, lastSeen |-> now,
                   config |-> [operationMode |-> DefaultMode]]
             ELSE m.devices[x]]]

\* DeviceManager.updateDeviceStatus
UpdateDeviceStatus(m, d, st) ==
  IF Has(m, d)
  THEN [m EXCEPT !.devices[d].status = st, !.devices[d].lastSeen = now,
                 !.total[d] = IF st = ONLINE THEN @ + 1 ELSE @]
  ELSE m

\* variant: the previous connection is left open
SetSocketNoEvict(m, d, s) ==
  IF Has(m, d)
  THEN UpdateDeviceStatus([m EXCEPT !.devices[d].socket = s], d, ONLINE)
  ELSE m

SetSocket(m, d, s) ==
  IF Has(m, d)
  THEN LET old == m.devices[d].socket
           m1 == IF old # NoSocket /\ m.readyState[old] = "OPEN"
                 THEN [m EXCEPT !.readyState[old] = "CLOSING"] ELSE m
           m2 == [m1 EXCEPT !.devices[d].socket = s]
       IN UpdateDeviceStatus(m2, d, ONLINE)
  ELSE m

RemoveSocket(m, d) ==
  IF Has(m, d)
  THEN UpdateDeviceStatus([m EXCEPT !.devices[d].socket = NoSocket], d, OFFLINE)
  ELSE m

SetRecordingStatus(m, d, rec) ==
  IF Has(m, d)
  THEN LET m1 == [m EXCEPT !.devices[d].isRecording = rec]
       IN IF rec THEN UpdateDeviceStatus(m1, d, STREAMING) ELSE m1
  ELSE m

\* ----------------------------------------------------------- VideoProcessor
IsRecording(m, d) == m.active[d] # NoProc

\* command.kill('SIGTERM'): the signal reaches a spawned process only; before
\* the spawn there is no process and the call does nothing.
Kill(m, p) ==
  [m EXCEPT !.procs[p].killed = TRUE,
            !.procs[p].state = IF @ = "running" THEN "dying" ELSE @]

\* variant: the recording flag is cleared whether or not a command exists
StopRecordingClearsFlag(m, d) ==
  LET command == m.active[d]
      stream  == m.streams[d]
  IN IF command # NoProc
     THEN LET m1 == IF stream # NoProc
                    THEN [m EXCEPT !.procs[stream].ended = TRUE] ELSE m
              m2 == Kill(m1, command)
              m3 == [m2 EXCEPT !.active[d] = NoProc, !.streams[d] = NoProc]
          IN SetRecordingStatus(m3, d, FALSE)
     ELSE SetRecordingStatus(m, d, FALSE)

\* VideoProcessor.stopRecording
StopRecording(m, d) ==
  LET command == m.active[d]
      stream  == m.streams[d]
  IN IF command # NoProc
     THEN LET m1 == IF stream # NoProc
                    THEN [m EXCEPT !.procs[stream].ended = TRUE] ELSE m
              m2 == Kill(m1, command)
              m3 == [m2 EXCEPT !.active[d] = NoProc, !.streams[d] = NoProc]
          IN SetRecordingStatus(m3, d, FALSE)
     ELSE m

\* writeFrame: TRUE when the frame is handed to stream.write
Writes(m, d) == m.streams[d] # NoProc /\ ~m.procs[m.streams[d]].ended

\* variant: the sink keeps the chunk until a later tick
WritableWriteDeferred(m, p) == [m EXCEPT !.procs[p].buffered = @ + 1]

\* stream.write(chunk) on the Writable built in startRecording: the chunk is
\* queued, write(chunk, encoding, callback) runs at once and calls callback(),
\* which takes the chunk off the queue before stream.write returns
WritableWrite(m, p) ==
  LET queued == [m EXCEPT !.procs[p].buffered = @ + 1]
  IN [queued EXCEPT !.procs[p].buffered = @ - 1]

\* variant: a frame that cannot be written unbinds the device
WriteFrameOrUnbind(m, d) ==
  IF Writes(m, d) THEN WritableWrite(m, m.streams[d]) ELSE RemoveSocket(m, d)

\* writeFrame: errors are caught and logged
WriteFrame(m, d) ==
  IF Writes(m, d) THEN WritableWrite(m, m.streams[d]) ELSE m

HandleRecordingError(m, d) ==
  LET m1 == [m EXCEPT !.active[d] = NoProc, !.streams[d] = NoProc]
      m2 == SetRecordingStatus(m1, d, FALSE)
  IN [m2 EXCEPT !.timers[d] = @ + 1]

\* ------------------------------------------------------------ wire formats
\* An upgrade request: the x-api-key header, the apiKey query parameter and
\* whether Origin/Referer names this host or localhost.
Requests == [hdr : Keys \cup {NoKey, BadKey}, qry : Keys \cup {NoKey, BadKey},
             front : BOOLEAN]

HeartbeatText    == "{\"type\":\"heartbeat\"}"
ReadyText        == "{\"type\":\"ready\"}"
ErrorText        == "{\"type\":\"error\",\"message\":\"x\"}"
UnknownTypeText  == "{\"type\":\"telemetry\"}"
StatusOnlineText == "{\"type\":\"status_update\",\"status\":\"online\"}"
StatusStreamText == "{\"type\":\"status_update\",\"status\":\"streaming\"}"
StatusSleepText  == "{\"type\":\"status_update\",\"status\":\"entering_sleep\"}"
StatusOffText    == "{\"type\":\"status_update\",\"status\":\"offline\"}"
StatusBogusText  == "{\"type\":\"status_update\",\"status\":\"charging\"}"
MalformedText    == "{\"type\":"
BinaryText       == "\\uFFFD"       \* what toString() makes of non-text bytes

Envelope(type, status) == [ok |-> TRUE, type |-> type, status |-> status]
SyntaxError == [ok |-> FALSE, type |-> "", status |-> ""]

\* JSON.parse(data.toString()) on the texts above
ParseJSON(text) ==
  CASE text = HeartbeatText    -> Envelope("heartbeat", "")
    [] text = ReadyText        -> Envelope("ready", "")
    [] text = ErrorText        -> Envelope("error", "")
    [] text = UnknownTypeText  -> Envelope("telemetry", "")
    [] text = StatusOnlineText -> Envelope("status_update", "online")
    [] text = StatusStreamText -> Envelope("status_update", "streaming")
    [] text = StatusSleepText  -> Envelope("status_update", "entering_sleep")
    [] text = StatusOffText    -> Envelope("status_update", "offline")
    [] text = StatusBogusText  -> Envelope("status_update", "charging")
    [] OTHER                   -> SyntaxError

\* A payload: its bytes (for a text, the first three) and its text.
TextPayload(text) == [bytes |-> <<123, 34, 116>>, text |-> text]
JpegFrame == [bytes |-> <<255, 216, 255>>, text |-> BinaryText]

ControlPayloads ==
  {TextPayload(t) : t \in {HeartbeatText, ReadyText, ErrorText, UnknownTypeText,
                           StatusOnlineText, StatusStreamText, StatusSleepText,
                           StatusOffText, StatusBogusText, MalformedText}}

DevicePayloads == {JpegFrame} \cup ControlPayloads

\* Binary payloads of up to three bytes; none of them is a JSON text.
ProbeBytes == {0, 123, 216, 217, 255}
ProbePayloads ==
  {[bytes |-> b, text |-> BinaryText] :
     b \in {<<>>} \cup {<<x>> : x \in ProbeBytes}
           \cup {<<x, y>> : x \in ProbeBytes, y \in ProbeBytes}
           \cup {<<x, y, z>> : x \in ProbeBytes, y \in ProbeBytes, z \in ProbeBytes}}

\* handleWebSocketMessage: the branch a payload takes
IsJpegFrame(data) == Len(data) > 2 /\ data[1] = 255 /\ data[2] = 216

\* variant: the device's 'ready' message is handled like its first frame
ClassifyReadyAsFrame(payload) ==
  IF IsJpegFrame(payload.bytes) \/ payload.text = ReadyText THEN "frame"
  ELSE IF ParseJSON(payload.text).ok THEN "command" ELSE "dropped"

\* handleWebSocketMessage: JPEG magic bytes, else JSON.parse
Classify(payload) ==
  IF IsJpegFrame(payload.bytes) THEN "frame"
  ELSE IF ParseJSON(payload.text).ok THEN "command" ELSE "dropped"

\* variant: a status that is not in the map counts as offline
StatusMapDefaultOffline(status) ==
  CASE status = "online"         -> ONLINE
    [] status = "streaming"      -> STREAMING
    [] status = "entering_sleep" -> ASLEEP
    [] OTHER                     -> OFFLINE

\* handleDeviceCommand: statusMap[command.status]
StatusMap(status) ==
  CASE status = "online"         -> ONLINE
    [] status = "streaming"      -> STREAMING
    [] status = "entering_sleep" -> ASLEEP
    [] status = "offline"        -> OFFLINE
    [] OTHER                     -> ""

\* variant: a heartbeat is acknowledged and nothing else
HandleDeviceCommandNoHeartbeat(m, d, command) ==
  CASE command.type = "status_update" ->
         IF command.status # "" /\ StatusMap(command.status) # ""
         THEN UpdateDeviceStatus(m, d, StatusMap(command.status)) ELSE m
    [] OTHER -> m

\* handleDeviceCommand: what the envelope does to the registry
HandleDeviceCommand(m, d, command) ==
  CASE command.type = "status_update" ->
         IF command.status # "" /\ StatusMap(command.status) # ""
         THEN UpdateDeviceStatus(m, d, StatusMap(command.status)) ELSE m
    [] command.type = "heartbeat" -> UpdateDeviceStatus(m, d, ONLINE)
    [] OTHER -> m

\* --------------------------------------------------------------- initial state
EmptyMap == [x \in {} |-> NoDevice]
NoResponse == [apiKey |-> NoKey, config |-> [operationMode |-> NoMode]]
NoCall == [op |-> "", dev |-> NoDevice, arg |-> "", ok |-> FALSE, n |-> 0]

InitCore ==
  /\ devices = EmptyMap
  /\ apiKeyToDeviceId = EmptyMap
  /\ readyState = [s \in Sockets |-> "NONE"]
  /\ sockDev = [s \in Sockets |-> NoDevice]
  /\ frontendClients = {}
  /\ closeFrameReceived = {}
  /\ received = [s \in Sockets |-> 0]
  /\ written = [s \in Sockets |-> <<>>]
  /\ starting = {}
  /\ restarting = [d \in DeviceIds |-> 0]
  /\ timers = [d \in DeviceIds |-> 0]
  /\ activeRecordings = [d \in DeviceIds |-> NoProc]
  /\ recordingStreams = [d \in DeviceIds |-> NoProc]
  /\ procs = [p \in Procs |-> FreeProc]
  /\ failures = [d \in DeviceIds |-> 0]
  /\ restartAttempts = [d \in DeviceIds |-> 0]
  /\ inputs = 0
  /\ now = 0
  /\ response = [d \in DeviceIds |-> NoResponse]
  /\ forwarded = [s \in Sockets |-> <<>>]
  /\ subscribed = {}
  /\ commandsSent = [s \in Sockets |-> 0]
  /\ totalConnections = [d \in DeviceIds |-> 0]
  /\ observed = NoCall

NoRequest == [hdr |-> NoKey, qry |-> NoKey, front |-> FALSE]
NoProbe   == [bytes |-> <<>>, text |-> BinaryText]

Init ==
  /\ InitCore
  /\ request = NoRequest
  /\ probe = NoProbe
  /\ verdict = "none"

\* ----------------------------------------------------------------- registry
\* DeviceManager.registerDevice: the state after the call and what it returns
RegisterDeviceCall(m, d) ==
  IF d \in DOMAIN m.devices
  THEN {[m |-> m, apiKey |-> m.devices[d].apiKey]}
  ELSE {[m |-> [m EXCEPT
                 !.devices = [x \in DOMAIN m.devices \cup {d} |->
                    IF x = d
                    THEN [apiKey |-> k, status |-> REGISTERED, socket |-> NoSocket,
                          isRecording |-> FALSE, lastSeen |-> now,
                          config |-> [operationMode |-> DefaultMode]]
                    ELSE m.devices[x]],
                 !.keys = [x \in DOMAIN m.keys \cup {k} |->
                    IF x = k THEN d ELSE m.keys[x]]],
         apiKey |-> k] : k \in Keys \ DOMAIN m.keys}

\* DeviceManager.updateDeviceConfig: { ...device.config, ...config }
UpdateDeviceConfig(m, d, config) ==
  IF d \in DOMAIN m.devices
  THEN [m EXCEPT !.devices[d].config =
          [f \in DOMAIN @ \cup DOMAIN config |->
             IF f \in DOMAIN config THEN config[f] ELSE @[f]]]
  ELSE m

\* variant: the update also resets the status of the session
UpdateOperationModeResets(m, d, mode) ==
  IF d \in DOMAIN m.devices
  THEN [m EXCEPT !.devices[d].config.operationMode = mode,
                 !.devices[d].status = REGISTERED]
  ELSE m

\* DeviceManager.updateOperationMode
UpdateOperationMode(m, d, mode) ==
  IF d \in DOMAIN m.devices
  THEN [m EXCEPT !.devices[d].config.operationMode = mode]
  ELSE m

\* POST /register with a valid MAC address as deviceId and operationMode `mode`:
\* registerDevice, then updateOperationMode when the mode is one of the three;
\* the response carries result.apiKey and result.config as they are by then
RegisterRoute(d, mode) ==
  /\ \E r \in RegisterDeviceCall([devices |-> devices, keys |-> apiKeyToDeviceId], d) :
       LET m1 == IF mode \in Modes THEN UpdateOperationMode(r.m, d, mode) ELSE r.m
       IN /\ devices' = m1.devices
          /\ apiKeyToDeviceId' = m1.keys
          /\ response' = [response EXCEPT ![d] =
               [apiKey |-> r.apiKey, config |-> m1.devices[d].config]]
  /\ UNCHANGED <<socketVars, frameVars, pipeVars, countVars, request, probe, verdict,
                 now, viewerVars>>

PostRegister(d, mode) == RegisterRoute(d, mode) /\ UNCHANGED callVars

\* POST /register without an operationMode
RegisterDevice(d) == PostRegister(d, NoMode)

\* variant: only the age of a device decides
IsInactiveAnyStatus(device) == now - device.lastSeen > MaxInactive

\* cleanupInactiveDevices: the test a device is removed on
IsInactive(device) ==
  now - device.lastSeen > MaxInactive /\ device.status = OFFLINE

\* variant: the sweep deletes the device and leaves its key in the index
CleanupInactiveDevicesKeepsKeys(m) ==
  LET gone == {d \in DOMAIN m.devices : IsInactive(m.devices[d])}
  IN [m EXCEPT !.devices = [d \in DOMAIN m.devices \ gone |-> m.devices[d]]]

\* DeviceManager.cleanupInactiveDevices: for each inactive device its key is
\* deleted from apiKeyToDeviceId and its entry from devices
CleanupInactiveDevices(m) ==
  LET gone == {d \in DOMAIN m.devices : IsInactive(m.devices[d])}
      goneKeys == {m.devices[d].apiKey : d \in gone}
  IN [m EXCEPT !.devices = [d \in DOMAIN m.devices \ gone |-> m.devices[d]],
               !.keys = [k \in DOMAIN m.keys \ goneKeys |-> m.keys[k]]]

\* variant: the readyState of the bound socket is not looked at
CanSendUnchecked(m, d) == Has(m, d) /\ m.devices[d].socket # NoSocket

\* DeviceManager.sendCommand: the test it sends on
CanSend(m, d) ==
  /\ Has(m, d)
  /\ m.devices[d].socket # NoSocket
  /\ m.readyState[m.devices[d].socket] = "OPEN"

\* -------------------------------------------------------------- connections
VerifyClient(req) ==
  LET apiKey == IF req.hdr # NoKey THEN req.hdr ELSE req.qry
  IN IF req.front THEN TRUE
     ELSE IF apiKey # NoKey THEN ValidateWebSocketApiKey(apiKey) ELSE FALSE

NextSocket == CHOOSE s \in Sockets :
                readyState[s] = "NONE" /\ \A t \in Sockets : t < s => readyState[t] # "NONE"

\* handleDeviceConnection
HandleDeviceConnection(s, req) ==
  LET apiKey   == IF req.hdr # NoKey THEN req.hdr ELSE req.qry
      deviceId == GetDeviceIdFromApiKey(apiKey)
  IN IF deviceId = NoDevice
     THEN /\ readyState' = [readyState EXCEPT ![s] = "CLOSING"]
          /\ UNCHANGED <<devices, sockDev, frontendClients>>
     ELSE /\ devices' = SetSocket([Cur EXCEPT !.readyState[s] = "OPEN"], deviceId, s).devices
          /\ readyState' = SetSocket([Cur EXCEPT !.readyState[s] = "OPEN"], deviceId, s).readyState
          /\ sockDev' = [sockDev EXCEPT ![s] = deviceId]
          /\ UNCHANGED frontendClients

\* handleFrontendConnection
HandleFrontendConnection(s) ==
  /\ frontendClients' = frontendClients \cup {s}
  /\ readyState' = [readyState EXCEPT ![s] = "OPEN"]
  /\ UNCHANGED <<devices, sockDev>>

\* The upgrade of one request: verifyClient, then handleWebSocketConnection.
Connect(req) ==
  /\ inputs < MaxInputs
  /\ \E s \in Sockets : readyState[s] = "NONE"
  /\ inputs' = inputs + 1
  /\ LET s == NextSocket IN
       IF ~VerifyClient(req)
       THEN \* the handshake is aborted with 401: no WebSocket object exists
            UNCHANGED <<devices, readyState, sockDev, frontendClients>>
       ELSE IF req.front /\ req.hdr = NoKey
            THEN HandleFrontendConnection(s)
            ELSE HandleDeviceConnection(s, req)
  /\ UNCHANGED <<apiKeyToDeviceId, closeFrameReceived, frameVars, pipeVars, failures,
                 restartAttempts, probe, verdict, histVars>>

AcceptConnection == \E req \in Requests : Connect(req) /\ UNCHANGED request

\* variant: the close handler leaves the pipeline running
HandleWebSocketCloseNoStop(m, d) == RemoveSocket(m, d)

\* variant: the close handler stops the recordings of all devices
HandleWebSocketCloseStopsAll(m, d) ==
  LET RECURSIVE StopAll(_, _)
      StopAll(mm, ds) ==
        IF ds = {} THEN mm
        ELSE LET x == CHOOSE x \in ds : TRUE
             IN StopAll(StopRecording(mm, x), ds \ {x})
  IN RemoveSocket(StopAll(m, DOMAIN m.active), d)

\* handleWebSocketClose
HandleWebSocketClose(m, d) == RemoveSocket(StopRecording(m, d), d)

\* ws 'close' on a device connection
DeviceSocketClose(s) ==
  /\ readyState[s] \in {"OPEN", "CLOSING"}
  /\ sockDev[s] # NoDevice
  /\ Commit(HandleWebSocketClose([Cur EXCEPT !.readyState[s] = "CLOSED"], sockDev[s]))
  /\ UNCHANGED <<apiKeyToDeviceId, sockDev, frontendClients, closeFrameReceived, frameVars, restarting,
                 countVars, auxVars>>

\* The peer's close frame arrives on a device connection: ws answers it and
\* readyState is CLOSING; the 'close' event is emitted when the TCP socket has
\* closed, in a later turn of the event loop.
DeviceSocketClosing(s) ==
  /\ readyState[s] = "OPEN"
  /\ sockDev[s] # NoDevice
  /\ readyState' = [readyState EXCEPT ![s] = "CLOSING"]
  /\ closeFrameReceived' = closeFrameReceived \cup {s}
  /\ UNCHANGED <<registryVars, sockDev, frontendClients, frameVars, pipeVars,
                 countVars, auxVars>>

\* ws 'error' on a device connection; the 'close' event follows
DeviceSocketError(s) ==
  /\ readyState[s] = "OPEN"
  /\ sockDev[s] # NoDevice
  /\ Commit(HandleWebSocketClose([Cur EXCEPT !.readyState[s] = "CLOSING"], sockDev[s]))
  /\ UNCHANGED <<apiKeyToDeviceId, sockDev, frontendClients, closeFrameReceived, frameVars, restarting,
                 countVars, auxVars>>

\* broadcastDeviceUpdate: the connections a device update is sent to
BroadcastTargets == {ws \in frontendClients : readyState[ws] = "OPEN"}

\* variant: the closed connection stays in frontendClients
FrontendSocketCloseKeeps(s) ==
  /\ readyState[s] \in {"OPEN", "CLOSING"}
  /\ s \in frontendClients
  /\ readyState' = [readyState EXCEPT ![s] = "CLOSED"]
  /\ UNCHANGED <<registryVars, sockDev, frontendClients, closeFrameReceived, frameVars,
                 pipeVars, countVars, auxVars>>

\* ws 'close' / 'error' on a frontend connection
FrontendSocketClose(s) ==
  /\ readyState[s] \in {"OPEN", "CLOSING"}
  /\ s \in frontendClients
  /\ frontendClients' = frontendClients \ {s}
  /\ readyState' = [readyState EXCEPT ![s] = "CLOSED"]
  /\ UNCHANGED <<registryVars, sockDev, closeFrameReceived, frameVars, pipeVars,
                 countVars, auxVars>>

\* ----------------------------------------------------------------- messages
\* ws 'message' on a device connection -> handleWebSocketMessage, up to the
\* point where it returns or suspends in fs.mkdir (createOutputPath).
OnMessage(s, payload) ==
  LET d == sockDev[s]
      f == received[s] + 1
  IN
  /\ readyState[s] \in {"OPEN", "CLOSING"}
  /\ s \notin closeFrameReceived
  /\ d # NoDevice
  /\ CASE Classify(payload) = "frame" ->
            /\ inputs < MaxInputs
            /\ inputs' = inputs + 1
            /\ received' = [received EXCEPT ![s] = f]
            /\ IF ~IsRecording(Cur, d)
               THEN \* startRecording: stopRecording, then createOutputPath
                    /\ Commit(StopRecording(Cur, d))
                    /\ starting' = starting \cup {[sock |-> s, frame |-> f]}
                    /\ UNCHANGED written
               ELSE /\ written' = IF Writes(Cur, d)
                                  THEN [written EXCEPT ![s] = Append(@, f)]
                                  ELSE written
                    /\ Commit(WriteFrame(Cur, d))
                    /\ UNCHANGED starting
       [] Classify(payload) = "command" ->
            /\ Commit(HandleDeviceCommand(Cur, d, ParseJSON(payload.text)))
            /\ UNCHANGED <<frameVars, inputs>>
       [] OTHER ->
            UNCHANGED <<devices, readyState, frameVars, timers, activeRecordings,
                        recordingStreams, procs, inputs>>
  /\ UNCHANGED <<apiKeyToDeviceId, sockDev, frontendClients, closeFrameReceived, restarting, failures,
                 restartAttempts>>

HandleWebSocketMessage(s, payload) == OnMessage(s, payload) /\ UNCHANGED auxVars

DeviceMessage == \E s \in Sockets, payload \in DevicePayloads :
                   HandleWebSocketMessage(s, payload)

\* --------------------------------------------------- startRecording, resumed
HasFreeProc == \E p \in Procs : procs[p].state = "none"
NewProc == CHOOSE p \in Procs :
             procs[p].state = "none" /\ \A q \in Procs : q < p => procs[q].state # "none"

\* lines 42-108 of startRecording when nothing throws: the command is stored,
\* run() is called and the stream is stored
RunCommand(m, d, p) ==
  [m EXCEPT !.procs[p] = [state |-> "spawning", dev |-> d, killed |-> FALSE,
                          ended |-> FALSE, buffered |-> 0],
            !.active[d] = p,
            !.streams[d] = p]

\* the command is stored, then input() or run() throws
StoreCommandOnly(m, d, p) ==
  [m EXCEPT !.procs[p] = [state |-> "created", dev |-> d, killed |-> FALSE,
                          ended |-> FALSE, buffered |-> 0],
            !.active[d] = p]

\* fs.mkdir resolved for a message handler: the pipeline is set up and the
\* handler goes on to writeFrame
StartRecordingDone(h) ==
  LET d == sockDev[h.sock] IN
  /\ h \in starting
  /\ starting' = starting \ {h}
  /\ IF d \in DOMAIN devices
     THEN /\ HasFreeProc
          /\ Commit(WriteFrame(RunCommand(Cur, d, NewProc), d))
          /\ written' = [written EXCEPT ![h.sock] = Append(@, h.frame)]
     ELSE \* 'Device not found' is thrown and caught by the handler
          UNCHANGED <<devices, readyState, pipeVars, written>>
  /\ UNCHANGED <<apiKeyToDeviceId, sockDev, frontendClients, closeFrameReceived, received, restarting,
                 countVars, auxVars>>

\* fs.mkdir rejected: startRecording throws, the handler logs; the frame is lost
StartRecordingMkdirFails(h) ==
  /\ h \in starting
  /\ starting' = starting \ {h}
  /\ UNCHANGED <<registryVars, socketVars, received, written, pipeVars, countVars,
                 auxVars>>

\* command.input() / command.run() throws after the command was stored
StartRecordingSpawnThrows(h) ==
  LET d == sockDev[h.sock] IN
  /\ h \in starting
  /\ d \in DOMAIN devices
  /\ HasFreeProc
  /\ starting' = starting \ {h}
  /\ Commit(StoreCommandOnly(Cur, d, NewProc))
  /\ UNCHANGED <<apiKeyToDeviceId, sockDev, frontendClients, closeFrameReceived, received, written,
                 restarting, countVars, auxVars>>

\* ------------------------------------------------------ transcoder events
\* 'start': the process was spawned
FfmpegStart(p) ==
  /\ procs[p].state = "spawning"
  /\ Commit(SetRecordingStatus([Cur EXCEPT !.procs[p].state = "running"],
                               procs[p].dev, TRUE))
  /\ UNCHANGED <<apiKeyToDeviceId, sockDev, frontendClients, closeFrameReceived, frameVars, restarting,
                 countVars, auxVars>>

\* 'error': the spawn failed, ffmpeg exited non-zero, or it died of the signal
\* kill() sent.  Only the first two count as failures of the transcoder.
FfmpegError(p) ==
  LET d == procs[p].dev IN
  /\ procs[p].state \in {"spawning", "running", "dying"}
  /\ procs[p].killed \/ inputs < MaxInputs
  /\ Commit(HandleRecordingError([Cur EXCEPT !.procs[p] = FreeProc], d))
  /\ failures' = IF procs[p].killed THEN failures
                 ELSE [failures EXCEPT ![d] = @ + 1]
  /\ inputs' = IF procs[p].killed THEN inputs ELSE inputs + 1
  /\ UNCHANGED <<apiKeyToDeviceId, sockDev, frontendClients, closeFrameReceived, frameVars, restarting,
                 restartAttempts, auxVars>>

\* the same event in a run where the transcoder fails on every start
FfmpegFailsAgain(p) ==
  /\ procs[p].state \in {"spawning", "running", "dying"}
  /\ Commit(HandleRecordingError([Cur EXCEPT !.procs[p] = FreeProc], procs[p].dev))
  /\ UNCHANGED <<apiKeyToDeviceId, sockDev, frontendClients, closeFrameReceived, frameVars, restarting,
                 countVars, auxVars>>

\* 'end': ffmpeg exited with code 0
FfmpegEnd(p) ==
  LET d  == procs[p].dev
      m1 == SetRecordingStatus([Cur EXCEPT !.procs[p] = FreeProc], d, FALSE)
  IN
  /\ procs[p].state = "running"
  /\ Commit([m1 EXCEPT !.active[d] = NoProc, !.streams[d] = NoProc])
  /\ UNCHANGED <<apiKeyToDeviceId, sockDev, frontendClients, closeFrameReceived, frameVars, restarting,
                 countVars, auxVars>>

\* ------------------------------------------------------------ restart timer
\* the setTimeout callback of handleRecordingError: startRecording up to fs.mkdir
RestartTimerFires(d) ==
  /\ timers[d] > 0
  /\ Commit(StopRecording([Cur EXCEPT !.timers[d] = @ - 1], d))
  /\ restarting' = [restarting EXCEPT ![d] = @ + 1]
  /\ restartAttempts' = [restartAttempts EXCEPT ![d] = Sat(@)]
  /\ UNCHANGED <<apiKeyToDeviceId, sockDev, frontendClients, closeFrameReceived, frameVars, failures,
                 inputs, auxVars>>

RestartDone(d) ==
  /\ restarting[d] > 0
  /\ restarting' = [restarting EXCEPT ![d] = @ - 1]
  /\ IF d \in DOMAIN devices
     THEN /\ HasFreeProc
          /\ Commit(RunCommand(Cur, d, NewProc))
     ELSE UNCHANGED <<devices, readyState, timers, activeRecordings,
                      recordingStreams, procs>>
  /\ UNCHANGED <<apiKeyToDeviceId, sockDev, frontendClients, closeFrameReceived, frameVars, countVars,
                 auxVars>>

RestartMkdirFails(d) ==
  /\ restarting[d] > 0
  /\ restarting' = [restarting EXCEPT ![d] = @ - 1]
  /\ UNCHANGED <<registryVars, socketVars, frameVars, timers, activeRecordings,
                 recordingStreams, procs, countVars, auxVars>>

RestartSpawnThrows(d) ==
  /\ restarting[d] > 0
  /\ d \in DOMAIN devices
  /\ HasFreeProc
  /\ restarting' = [restarting EXCEPT ![d] = @ - 1]
  /\ Commit(StoreCommandOnly(Cur, d, NewProc))
  /\ UNCHANGED <<apiKeyToDeviceId, sockDev, frontendClients, closeFrameReceived, frameVars, countVars,
                 auxVars>>

\* ------------------------------------------------------------ specification
Next ==
  \/ \E d \in DeviceIds : RegisterDevice(d)
  \/ AcceptConnection
  \/ DeviceMessage
  \/ \E h \in starting : StartRecordingDone(h)
  \/ \E h \in starting : StartRecordingMkdirFails(h)
  \/ \E h \in starting : StartRecordingSpawnThrows(h)
  \/ \E p \in Procs : FfmpegStart(p)
  \/ \E p \in Procs : FfmpegError(p)
  \/ \E p \in Procs : FfmpegEnd(p)
  \/ \E d \in DeviceIds : RestartTimerFires(d)
  \/ \E d \in DeviceIds : RestartDone(d)
  \/ \E d \in DeviceIds : RestartMkdirFails(d)
  \/ \E d \in DeviceIds : RestartSpawnThrows(d)
  \/ \E s \in Sockets : DeviceSocketClosing(s)
  \/ \E s \in Sockets : DeviceSocketClose(s)
  \/ \E s \in Sockets : DeviceSocketError(s)
  \/ \E s \in Sockets : FrontendSocketClose(s)

Spec == Init /\ [][Next]_vars

\* ----------------------------------------------- scenario specifications
\* Scenario A starts where device AA:BB:CC:DD:EE:FF has registered and its
\* connection is bound; the inputs are counted from there.
ScenarioDevice == "AA:BB:CC:DD:EE:FF"
ScenarioSocket == 1
ScenarioFrames == <<1, 2, 3>>

InitBound ==
  /\ devices = [d \in {ScenarioDevice} |->
                  [apiKey |-> "key1", status |-> ONLINE, socket |-> ScenarioSocket,
                   isRecording |-> FALSE, lastSeen |-> 0,
                   config |-> [operationMode |-> DefaultMode]]]
  /\ apiKeyToDeviceId = [k \in {"key1"} |-> ScenarioDevice]
  /\ readyState = [s \in Sockets |-> IF s = ScenarioSocket THEN "OPEN" ELSE "NONE"]
  /\ sockDev = [s \in Sockets |-> IF s = ScenarioSocket THEN ScenarioDevice ELSE NoDevice]
  /\ frontendClients = {}
  /\ closeFrameReceived = {}
  /\ received = [s \in Sockets |-> 0]
  /\ written = [s \in Sockets |-> <<>>]
  /\ starting = {}
  /\ restarting = [d \in DeviceIds |-> 0]
  /\ timers = [d \in DeviceIds |-> 0]
  /\ activeRecordings = [d \in DeviceIds |-> NoProc]
  /\ recordingStreams = [d \in DeviceIds |-> NoProc]
  /\ procs = [p \in Procs |-> FreeProc]
  /\ failures = [d \in DeviceIds |-> 0]
  /\ restartAttempts = [d \in DeviceIds |-> 0]
  /\ inputs = 0
  /\ request = NoRequest
  /\ probe = NoProbe
  /\ verdict = "none"
  /\ now = 0
  /\ response = [d \in DeviceIds |->
       [apiKey |-> "key1", config |-> [operationMode |-> DefaultMode]]]
  /\ forwarded = [s \in Sockets |-> <<>>]
  /\ subscribed = {}
  /\ commandsSent = [s \in Sockets |-> 0]
  /\ totalConnections = [d \in DeviceIds |-> 1]   \* one bind so far
  /\ observed = NoCall

FrameArrives == HandleWebSocketMessage(ScenarioSocket, JpegFrame)
HeartbeatArrives == HandleWebSocketMessage(ScenarioSocket, TextPayload(HeartbeatText))
AnyStartDone == \E h \in starting : StartRecordingDone(h)
TranscoderStarts == \E p \in Procs : FfmpegStart(p)

\* No fault and no disconnect: frames arrive, mkdir calls complete, the
\* transcoders spawn.
NextScenarioA == FrameArrives \/ AnyStartDone \/ TranscoderStarts

SpecScenarioA == InitBound /\ [][NextScenarioA]_vars

\* A transcoder that fails on every start.
TranscoderFails    == \E p \in Procs : FfmpegFailsAgain(p)
RestartFires       == \E d \in DeviceIds : RestartTimerFires(d)
RestartStartDone   == \E d \in DeviceIds : RestartDone(d)

NextFailing ==
  \/ FrameArrives \/ HeartbeatArrives \/ AnyStartDone \/ TranscoderStarts
  \/ TranscoderFails \/ RestartFires \/ RestartStartDone

\* The event loop runs every due callback: mkdir completes, the failing
\* process reports its error, the timeout fires.
SpecFailing ==
  /\ InitBound
  /\ [][NextFailing]_vars
  /\ WF_vars(AnyStartDone)
  /\ WF_vars(TranscoderFails)
  /\ WF_vars(RestartFires)
  /\ WF_vars(RestartStartDone)

\* One upgrade request at a time, kept in the state.
HandshakeConnect == Connect(request) /\ UNCHANGED request
HandshakeNewRequest ==
  /\ request' \in Requests
  /\ UNCHANGED <<registryVars, socketVars, frameVars, pipeVars, countVars, probe,
                 verdict, histVars>>

InitHandshake ==
  /\ InitCore
  /\ request \in Requests
  /\ probe = NoProbe
  /\ verdict = "none"

NextHandshake ==
  \/ \E d \in DeviceIds : RegisterDevice(d)
  \/ HandshakeConnect
  \/ HandshakeNewRequest
  \/ DeviceMessage
  \/ AnyStartDone
  \/ TranscoderStarts
  \/ \E s \in Sockets : DeviceSocketClose(s)
  \/ \E s \in Sockets : FrontendSocketClose(s)

SpecHandshake == InitHandshake /\ [][NextHandshake]_vars

\* The device registry on its own: registrations with every operationMode,
\* the clock, binds and unbinds, control messages, the inactive-device sweep and
\* DeviceManager.sendCommand.  Each call is recorded in `observed` as it is made.
Call(op, d, arg, ok) ==
  [op |-> op, dev |-> d, arg |-> arg, ok |-> ok, n |-> observed.n + 1]

ObservedRegister(d, mode) ==
  /\ observed.n < MaxCalls
  /\ RegisterRoute(d, mode)
  /\ observed' = Call("register", d, mode, d \in DOMAIN devices)
  /\ UNCHANGED <<commandsSent, totalConnections>>

Tick ==
  /\ now < MaxTime
  /\ now' = now + 1
  /\ UNCHANGED <<registryVars, socketVars, frameVars, pipeVars, countVars, request,
                 probe, verdict, response, viewerVars, callVars>>

ObservedMessage(s, payload) ==
  /\ observed.n < MaxCalls
  /\ OnMessage(s, payload)
  /\ observed' = Call(IF ParseJSON(payload.text).ok THEN ParseJSON(payload.text).type
                      ELSE "dropped",
                      sockDev[s], ParseJSON(payload.text).status, sockDev[s] \in DOMAIN devices)
  /\ UNCHANGED <<request, probe, verdict, now, response, viewerVars, commandsSent, totalConnections>>

RegistryPayloads ==
  {TextPayload(t) : t \in {HeartbeatText, StatusSleepText, StatusOffText, MalformedText}}

ControlMessage == \E s \in Sockets, payload \in RegistryPayloads : ObservedMessage(s, payload)

\* a device's upgrade request with a key in the x-api-key header
DeviceConnects ==
  \E req \in Requests : req.hdr \in Keys /\ ~req.front /\ Connect(req) /\ UNCHANGED request

RegistryModes == {"motion-triggered", "always-on", NoMode, BadMode}

\* CleanupService.performCleanup, as far as the registry goes
ObservedCleanup ==
  LET m == CleanupInactiveDevices([devices |-> devices, keys |-> apiKeyToDeviceId]) IN
  /\ observed.n < MaxCalls
  /\ devices' = m.devices
  /\ apiKeyToDeviceId' = m.keys
  /\ observed' = Call("cleanup", NoDevice, "", DOMAIN m.devices # DOMAIN devices)
  /\ UNCHANGED <<socketVars, frameVars, pipeVars, countVars, request, probe, verdict,
                 now, response, viewerVars, commandsSent, totalConnections>>

\* DeviceManager.sendCommand(deviceId, command)
ObservedSend(d) ==
  /\ observed.n < MaxCalls
  /\ IF CanSend(Cur, d)
     THEN /\ commandsSent[devices[d].socket] < MaxCount
          /\ commandsSent' = [commandsSent EXCEPT ![devices[d].socket] = @ + 1]
     ELSE UNCHANGED commandsSent
  /\ UNCHANGED totalConnections
  /\ observed' = Call("sendCommand", d, "", CanSend(Cur, d))
  /\ UNCHANGED <<registryVars, socketVars, frameVars, pipeVars, countVars, request,
                 probe, verdict, now, response, viewerVars>>

NextRegistry ==
  \/ \E d \in DeviceIds, mode \in RegistryModes : ObservedRegister(d, mode)
  \/ Tick
  \/ ControlMessage
  \/ \E s \in Sockets : DeviceSocketClosing(s)
  \/ \E s \in Sockets : DeviceSocketClose(s)
  \/ ObservedCleanup
  \/ \E d \in DeviceIds : ObservedSend(d)

SpecRegistry == InitBound /\ [][NextRegistry]_vars

\* A bound device and the viewers of the dashboard: viewers connect, ask for the
\* device's frames and leave while the device sends frames and disconnects.
ViewerConnects ==
  \E req \in Requests : req.front /\ req.hdr = NoKey /\ Connect(req) /\ UNCHANGED request

\* TRUE when a connection is bound to device d
Connected(d) == d \in DOMAIN devices /\ devices[d].socket # NoSocket

\* variant: a message of an unknown type ends the viewer's connection
ViewerSubscribesCloses(s) ==
  /\ observed.n < MaxCalls
  /\ s \in frontendClients
  /\ readyState[s] = "OPEN"
  /\ s \notin subscribed
  /\ subscribed' = subscribed \cup {s}
  /\ readyState' = [readyState EXCEPT ![s] = "CLOSING"]
  /\ observed' = Call("subscribe", ScenarioDevice, "", Connected(ScenarioDevice))
  /\ UNCHANGED <<registryVars, sockDev, frontendClients, closeFrameReceived, frameVars,
                 pipeVars, countVars, request, probe, verdict, now, response,
                 forwarded, commandsSent, totalConnections>>

\* handleFrontendMessage on {type: 'subscribe', deviceId}: no case of the switch
\* matches, the default branch logs a warning.  What the viewer asked for is
\* recorded in `subscribed`, and in `observed` whether the device was connected.
ViewerSubscribes(s) ==
  /\ observed.n < MaxCalls
  /\ s \in frontendClients
  /\ readyState[s] = "OPEN"
  /\ s \notin subscribed
  /\ subscribed' = subscribed \cup {s}
  /\ observed' = Call("subscribe", ScenarioDevice, "", Connected(ScenarioDevice))
  /\ UNCHANGED <<registryVars, socketVars, frameVars, pipeVars, countVars, request,
                 probe, verdict, now, response, forwarded, commandsSent, totalConnections>>

NextViewer ==
  \/ ViewerConnects
  \/ \E s \in Sockets : ViewerSubscribes(s)
  \/ \E s \in Sockets : FrontendSocketClose(s)
  \/ \E s \in Sockets : DeviceSocketClose(s)
  \/ FrameArrives
  \/ AnyStartDone
  \/ TranscoderStarts

SpecViewer == InitBound /\ [][NextViewer]_vars

\* ------------------------------------------------- commands sent to a device
\* JSON.stringify of the commands the server puts on a device connection
\* (their timestamp and duration fields left out)
StartStreamText   == "{\"type\":\"start_stream\"}"
StopStreamText    == "{\"type\":\"stop_stream\"}"
WakeAndStreamText == "{\"action\":\"wake_and_stream\"}"
StopCommandText   == "{\"action\":\"stop_stream\"}"
NoAction == "null"

\* the device's handleServerCommand: command["action"] of the parsed text
CommandAction(text) ==
  CASE text = WakeAndStreamText -> "wake_and_stream"
    [] text = StopCommandText   -> "stop_stream"
    [] OTHER                    -> NoAction

\* the actions handleServerCommand has a branch for
DeviceActions ==
  {"start_streaming", "stop_streaming", "update_operation_mode", "reboot", "sleep"}

\* handleStartStreamRequest for a viewer's {type: 'start_stream', deviceId}:
\* device.socket.send(text) when the device has a socket; ws puts the text on the
\* wire when the socket is OPEN.  `observed` records the text and whether it
\* went out.
HandleStartStreamRequest(s, d) ==
  /\ observed.n < MaxCalls
  /\ s \in frontendClients
  /\ readyState[s] = "OPEN"
  /\ observed' = Call("handleStartStreamRequest", d, StartStreamText, CanSend(Cur, d))
  /\ UNCHANGED <<registryVars, socketVars, frameVars, pipeVars, countVars, request,
                 probe, verdict, now, response, viewerVars, commandsSent, totalConnections>>

\* handleStopStreamRequest for a viewer's {type: 'stop_stream', deviceId}
HandleStopStreamRequest(s, d) ==
  /\ observed.n < MaxCalls
  /\ s \in frontendClients
  /\ readyState[s] = "OPEN"
  /\ observed' = Call("handleStopStreamRequest", d, StopStreamText, CanSend(Cur, d))
  /\ UNCHANGED <<registryVars, socketVars, frameVars, pipeVars, countVars, request,
                 probe, verdict, now, response, viewerVars, commandsSent, totalConnections>>

\* ApiController.startDeviceStream: the wake command when the socket is OPEN,
\* status STREAMING either way
StartDeviceStream(d) ==
  /\ observed.n < MaxCalls
  /\ Has(Cur, d)
  /\ devices' = UpdateDeviceStatus(Cur, d, STREAMING).devices
  /\ totalConnections' = UpdateDeviceStatus(Cur, d, STREAMING).total
  /\ observed' = Call("startDeviceStream", d, WakeAndStreamText, CanSend(Cur, d))
  /\ UNCHANGED <<apiKeyToDeviceId, socketVars, frameVars, pipeVars, countVars, request,
                 probe, verdict, now, response, viewerVars, commandsSent>>

\* ApiController.stopDeviceStream: 400 unless the socket is OPEN
StopDeviceStream(d) ==
  /\ observed.n < MaxCalls
  /\ Has(Cur, d)
  /\ devices' = IF CanSend(Cur, d) THEN UpdateDeviceStatus(Cur, d, ONLINE).devices
                ELSE devices
  /\ totalConnections' = IF CanSend(Cur, d) THEN UpdateDeviceStatus(Cur, d, ONLINE).total
                         ELSE totalConnections
  /\ observed' = Call("stopDeviceStream", d, StopCommandText, CanSend(Cur, d))
  /\ UNCHANGED <<apiKeyToDeviceId, socketVars, frameVars, pipeVars, countVars, request,
                 probe, verdict, now, response, viewerVars, commandsSent>>

StreamOps ==
  {"handleStartStreamRequest", "handleStopStreamRequest", "startDeviceStream",
   "stopDeviceStream"}

\* A bound device, the dashboard's viewers and the REST client asking the
\* device to start and stop streaming while the clock runs and the device leaves.
NextCommands ==
  \/ ViewerConnects
  \/ \E s \in Sockets, d \in DeviceIds : HandleStartStreamRequest(s, d)
  \/ \E s \in Sockets, d \in DeviceIds : HandleStopStreamRequest(s, d)
  \/ \E d \in DeviceIds : StartDeviceStream(d)
  \/ \E d \in DeviceIds : StopDeviceStream(d)
  \/ Tick
  \/ \E s \in Sockets : DeviceSocketClosing(s)
  \/ \E s \in Sockets : DeviceSocketClose(s)
  \/ \E s \in Sockets : FrontendSocketClose(s)

SpecCommands == InitBound /\ [][NextCommands]_vars

\* ------------------------------------------------- the connection counter
\* DeviceInfo.totalConnections through a device's life: registration, binds,
\* control messages, stream stop requests and disconnects.  registerDevice
\* creates the entry with totalConnections: 0, the value the counter has here
\* before the registration.
\* the upgrade request of device d with its key in x-api-key:
\* handleDeviceConnection -> setSocket
CountedBind(d) ==
  LET req == [hdr |-> devices[d].apiKey, qry |-> NoKey, front |-> FALSE]
      s   == NextSocket
  IN
  /\ d \in DOMAIN devices
  /\ inputs < MaxInputs
  /\ \E x \in Sockets : readyState[x] = "NONE"
  /\ inputs' = inputs + 1
  /\ VerifyClient(req)
  /\ HandleDeviceConnection(s, req)
  /\ totalConnections' = SetSocket([Cur EXCEPT !.readyState[s] = "OPEN"], d, s).total
  /\ UNCHANGED <<apiKeyToDeviceId, closeFrameReceived, frameVars, pipeVars, failures,
                 restartAttempts, request, probe, verdict, now, response, viewerVars,
                 commandsSent, observed>>

CounterPayloads ==
  {TextPayload(t) : t \in {HeartbeatText, StatusOnlineText, StatusOffText, ReadyText}}

\* handleDeviceCommand on a text message of the device
CountedMessage(s, payload) ==
  /\ observed.n < MaxCalls
  /\ OnMessage(s, payload)
  /\ totalConnections' =
       IF Classify(payload) = "command"
       THEN HandleDeviceCommand(Cur, sockDev[s], ParseJSON(payload.text)).total
       ELSE totalConnections
  /\ observed' = Call(ParseJSON(payload.text).type, sockDev[s],
                      ParseJSON(payload.text).status, sockDev[s] \in DOMAIN devices)
  /\ UNCHANGED <<request, probe, verdict, now, response, viewerVars, commandsSent>>

NextCounter ==
  \/ \E d \in DeviceIds : RegisterDevice(d)
  \/ \E d \in DeviceIds : CountedBind(d)
  \/ \E s \in Sockets, payload \in CounterPayloads : CountedMessage(s, payload)
  \/ \E d \in DeviceIds : StopDeviceStream(d)
  \/ \E s \in Sockets : DeviceSocketClose(s)

SpecCounter == Init /\ [][NextCounter]_vars

\* A bound device that sends frames and control messages on one connection.
AnyControlMessage ==
  \E s \in Sockets, payload \in ControlPayloads : ObservedMessage(s, payload)

NextOrdering == FrameArrives \/ AnyControlMessage \/ AnyStartDone \/ TranscoderStarts

SpecOrdering == InitBound /\ [][NextOrdering]_vars

\* Two devices, each registered and bound to a connection of its own: their
\* messages, the startRecording calls they lead to, the start of their
\* transcoders and the end of either connection.
OtherDevice == "11:22:33:44:55:66"
OtherSocket == 2
PairDevices == {ScenarioDevice, OtherDevice}

InitPair ==
  /\ devices = [d \in PairDevices |->
                  [apiKey |-> IF d = ScenarioDevice THEN "key1" ELSE "key2",
                   status |-> ONLINE,
                   socket |-> IF d = ScenarioDevice THEN ScenarioSocket ELSE OtherSocket,
                   isRecording |-> FALSE, lastSeen |-> 0,
                   config |-> [operationMode |-> DefaultMode]]]
  /\ apiKeyToDeviceId = [k \in {"key1", "key2"} |->
                           IF k = "key1" THEN ScenarioDevice ELSE OtherDevice]
  /\ readyState = [s \in Sockets |->
                     IF s \in {ScenarioSocket, OtherSocket} THEN "OPEN" ELSE "NONE"]
  /\ sockDev = [s \in Sockets |->
                  IF s = ScenarioSocket THEN ScenarioDevice
                  ELSE IF s = OtherSocket THEN OtherDevice ELSE NoDevice]
  /\ frontendClients = {}
  /\ closeFrameReceived = {}
  /\ received = [s \in Sockets |-> 0]
  /\ written = [s \in Sockets |-> <<>>]
  /\ starting = {}
  /\ restarting = [d \in PairDevices |-> 0]
  /\ timers = [d \in PairDevices |-> 0]
  /\ activeRecordings = [d \in PairDevices |-> NoProc]
  /\ recordingStreams = [d \in PairDevices |-> NoProc]
  /\ procs = [p \in Procs |-> FreeProc]
  /\ failures = [d \in PairDevices |-> 0]
  /\ restartAttempts = [d \in PairDevices |-> 0]
  /\ inputs = 0
  /\ request = NoRequest
  /\ probe = NoProbe
  /\ verdict = "none"
  /\ now = 0
  /\ response = [d \in PairDevices |->
       [apiKey |-> devices[d].apiKey, config |-> [operationMode |-> DefaultMode]]]
  /\ forwarded = [s \in Sockets |-> <<>>]
  /\ subscribed = {}
  /\ commandsSent = [s \in Sockets |-> 0]
  /\ totalConnections = [d \in PairDevices |-> 1]
  /\ observed = NoCall

PairPayloads == {JpegFrame, TextPayload(StatusSleepText)}

PairMessage ==
  \E s \in Sockets, payload \in PairPayloads :
    /\ payload = JpegFrame => inputs < MaxPairFrames
    /\ HandleWebSocketMessage(s, payload)

NextPair ==
  \/ PairMessage
  \/ AnyStartDone
  \/ TranscoderStarts
  \/ \E s \in Sockets : DeviceSocketClose(s)
  \/ \E s \in Sockets : DeviceSocketError(s)

SpecPair == InitPair /\ [][NextPair]_vars

\* The registry with two registered and bound devices: they report offline,
\* disconnect, are swept when the clock has run, and register again.
PairRegisters == \E d \in PairDevices : ObservedRegister(d, NoMode)
PairControlPayloads == {TextPayload(StatusOffText), TextPayload(HeartbeatText)}
PairControlMessage ==
  \E s \in Sockets, payload \in PairControlPayloads : ObservedMessage(s, payload)
PairDisconnects == \E s \in Sockets : DeviceSocketClose(s)

NextRegistryPair ==
  PairRegisters \/ PairControlMessage \/ PairDisconnects \/ Tick
  \/ ObservedCleanup

SpecRegistryPair == InitPair /\ [][NextRegistryPair]_vars

\* One payload at a time through the classification of handleWebSocketMessage.
ClassifyProbe ==
  /\ verdict = "none"
  /\ verdict' = Classify(probe)
  /\ UNCHANGED <<registryVars, socketVars, frameVars, pipeVars, countVars, request,
                 probe, histVars>>

NextProbe ==
  /\ verdict # "none"
  /\ probe' \in ProbePayloads \cup DevicePayloads
  /\ verdict' = "none"
  /\ UNCHANGED <<registryVars, socketVars, frameVars, pipeVars, countVars, request,
                 histVars>>

InitClassify ==
  /\ InitCore
  /\ request = NoRequest
  /\ probe \in ProbePayloads \cup DevicePayloads
  /\ verdict = "none"

SpecClassify == InitClassify /\ [][ClassifyProbe \/ NextProbe]_vars

\* ------------------------------------------------------------------ claims
\* the close or error handler of connection s runs in this step
CloseHandlerRuns(s) ==
  /\ sockDev[s] # NoDevice
  /\ \/ readyState[s] \in {"OPEN", "CLOSING"} /\ readyState'[s] = "CLOSED"
     \/ /\ readyState[s] = "OPEN" /\ readyState'[s] = "CLOSING"
        /\ \A t \in Sockets : readyState[t] = "NONE" => readyState'[t] = "NONE"
        /\ closeFrameReceived' = closeFrameReceived

\* C1: when a second connection binds a device id, the newer connection wins:
\* the close event of the evicted connection leaves the newer connection bound,
\* the device's status alone and its pipeline running.
C1_EvictedCloseIsHarmless ==
  [][\A s \in Sockets :
       LET d == sockDev[s] IN
       (/\ CloseHandlerRuns(s)
        /\ d \in DOMAIN devices
        /\ devices[d].socket \notin {s, NoSocket})
       => /\ devices'[d] = devices[d]
          /\ activeRecordings'[d] = activeRecordings[d]
          /\ recordingStreams'[d] = recordingStreams[d]]_vars

C2_BoundIsOpen ==
  \A d \in DOMAIN devices :
    devices[d].socket # NoSocket =>
      /\ \/ readyState[devices[d].socket] = "OPEN"
         \/ /\ readyState[devices[d].socket] = "CLOSING"
            /\ devices[d].socket \in closeFrameReceived
      /\ sockDev[devices[d].socket] = d

C2_RebindClosesOld ==
  \A d \in DOMAIN devices :
    (/\ d \in DOMAIN devices'
     /\ devices[d].socket # NoSocket
     /\ devices'[d].socket \notin {NoSocket, devices[d].socket})
    => readyState'[devices[d].socket] # "OPEN"

\* C2: the registry binds at most one connection to a device, the bound
\* connection is an open connection of that device, and setSocket closes the
\* connection it replaces.
C2_OneBoundConnection == []C2_BoundIsOpen /\ [][C2_RebindClosesOld]_vars

C2_Witness ==
  \E d \in DOMAIN devices, s \in Sockets :
    /\ sockDev[s] = d
    /\ readyState[s] = "CLOSING"
    /\ devices[d].socket \notin {s, NoSocket}
    /\ readyState[devices[d].socket] = "OPEN"

\* C3: the frames of one connection reach stream.write in the order received.
C3_FramesInOrder ==
  \A s \in Sockets : \A i, j \in 1..Len(written[s]) :
    i < j => written[s][i] < written[s][j]

ActivePipelines(d) ==
  {p \in Procs : /\ procs[p].dev = d
                 /\ procs[p].state \in {"spawning", "running"}
                 /\ ~procs[p].killed}

\* C4: at most one started, not terminated and not stopped transcoder per device.
C4_OneActivePipeline == \A d \in DeviceIds : Cardinality(ActivePipelines(d)) <= 1

C6_OneFailureOneRestart ==
  \A d \in DeviceIds : failures[d] = 1 => restartAttempts[d] <= 1

\* C7: with a transcoder that fails on every start the restarts come to an end.
C7_RestartsEnd ==
  <>[](\A d \in DeviceIds : timers[d] = 0 /\ restarting[d] = 0)

ScenarioAOver ==
  /\ received[ScenarioSocket] = Len(ScenarioFrames)
  /\ starting = {}
  /\ \A p \in Procs : procs[p].state # "spawning"

\* C8: three JPEG frames on a bound connection with no pipeline: one pipeline
\* is created, the three frames reach it in order, the status is STREAMING.
C8_ScenarioA ==
  ScenarioAOver =>
    /\ Cardinality({p \in Procs : procs[p].state # "none"}) = 1
    /\ written[ScenarioSocket] = ScenarioFrames
    /\ devices[ScenarioDevice].status = STREAMING

Credential(req) == IF req.hdr # NoKey THEN req.hdr ELSE req.qry
CredentialOwners(req) == {d \in DOMAIN devices : devices[d].apiKey = Credential(req)}
IsViewer(req) == req.front /\ req.hdr = NoKey
ConnectStep == inputs' = inputs + 1 /\ received' = received /\ failures' = failures

\* C9: only a peer whose credential belongs to a registered device is bound as
\* a device; any other peer that is not a viewer is turned away and changes
\* no device session.
C9_OnlyCredentialedDevices ==
  [][ConnectStep =>
       /\ \A s \in Sockets :
            (sockDev[s] = NoDevice /\ sockDev'[s] # NoDevice)
            => sockDev'[s] \in CredentialOwners(request)
       /\ (~IsViewer(request) /\ CredentialOwners(request) = {})
          => /\ devices' = devices
             /\ sockDev' = sockDev
             /\ frontendClients' = frontendClients
             /\ activeRecordings' = activeRecordings
             /\ recordingStreams' = recordingStreams
             /\ procs' = procs
             /\ starting' = starting
             /\ \A s \in Sockets : readyState'[s] \in {readyState[s], "CLOSING"}]_vars

C9_Witness ==
  /\ DOMAIN devices # {}
  /\ ~IsViewer(request) /\ CredentialOwners(request) = {}
  /\ \E s \in Sockets : readyState[s] = "CLOSING" /\ sockDev[s] = NoDevice
  /\ \E s \in Sockets : readyState[s] = "OPEN" /\ sockDev[s] # NoDevice

HasJpegMagic(data) == Len(data) >= 2 /\ data[1] = 255 /\ data[2] = 216

\* C10: a payload is a video frame exactly when it begins with 0xFF 0xD8,
\* whatever its length; any other payload is a command when it parses and is
\* dropped when it does not.
C10_MagicBytesDecide ==
  verdict # "none" =>
    IF HasJpegMagic(probe.bytes)
    THEN verdict = "frame"
    ELSE verdict = IF ParseJSON(probe.text).ok THEN "command" ELSE "dropped"

\* ---------------------------------------------------------------- registry claims
\* the step is the call `op` recorded in `observed`
Observed(op) == observed' # observed /\ observed'.op = op

\* C11 (as amended): POST /register for an id that is already registered returns
\* the credential the device already has, adds no session and no credential
\* mapping, and returns the stored configuration with its operationMode replaced
\* by the one of the request when that is one of the three modes; the session
\* changes in nothing but that configuration.
C11_ReRegistration ==
  [][\A d \in DOMAIN devices :
       (Observed("register") /\ observed'.dev = d) =>
         /\ response'[d].apiKey = devices[d].apiKey
         /\ response'[d].apiKey = response[d].apiKey
         /\ apiKeyToDeviceId' = apiKeyToDeviceId
         /\ DOMAIN devices' = DOMAIN devices
         /\ response'[d].config =
              IF observed'.arg \in Modes
              THEN [devices[d].config EXCEPT !.operationMode = observed'.arg]
              ELSE devices[d].config
         /\ devices'[d] = [devices[d] EXCEPT !.config = response'[d].config]]_vars

\* a second registration that carried an operationMode other than the default
C11_Witness ==
  /\ observed.op = "register" /\ observed.ok
  /\ observed.dev \in DOMAIN devices
  /\ observed.arg \in Modes \ {DefaultMode}
  /\ response[observed.dev].config.operationMode = observed.arg

\* C11 as stated: the second registration answers what the one before answered
\* and changes nothing
C11_IdenticalBothTimes ==
  [][\A d \in DOMAIN devices :
       (Observed("register") /\ observed'.dev = d) =>
         /\ response'[d] = response[d]
         /\ UNCHANGED registryVars]_vars

\* C18: once a heartbeat of a known device is processed, the device's lastSeen is
\* the time of processing and its status is ONLINE or STREAMING.
C18_HeartbeatRefreshes ==
  [][\A d \in DOMAIN devices :
       (Observed("heartbeat") /\ observed'.dev = d) =>
         /\ d \in DOMAIN devices'
         /\ devices'[d].lastSeen = now
         /\ devices'[d].status \in {ONLINE, STREAMING}]_vars

\* a heartbeat was processed after the clock had advanced
C18_Witness ==
  /\ observed.op = "heartbeat"
  /\ observed.dev \in DOMAIN devices
  /\ now > 0
  /\ devices[observed.dev].lastSeen = now
  /\ devices[observed.dev].status = ONLINE

C12_StopWithoutPipeline ==
  \A d \in DeviceIds :
    /\ activeRecordings[d] = NoProc => StopRecording(Cur, d) = Cur
    /\ StopRecording(StopRecording(Cur, d), d) = StopRecording(Cur, d)

\* the close handler, and with it stopRecording, ran for a device for which no
\* transcoder was ever created
C12_Witness ==
  \E s \in Sockets :
    /\ readyState[s] = "CLOSED"
    /\ sockDev[s] \in DOMAIN devices
    /\ devices[sockDev[s]].socket = NoSocket
    /\ activeRecordings[sockDev[s]] = NoProc
    /\ \A p \in Procs : procs[p] = FreeProc

WriteFrameRuns(s) ==
  /\ received'[s] = received[s] + 1
  /\ sockDev[s] \in DeviceIds
  /\ IsRecording(Cur, sockDev[s])

\* C15: a step that calls writeFrame changes neither the registry nor a socket
\* nor the pipeline maps nor a process.  With a stream that exists and has not
\* been ended the frame is appended to what was written for its connection, and
\* without one nothing is written.
C15_WriteFrameOnlyAppends ==
  [][\A s \in Sockets :
       WriteFrameRuns(s) =>
         /\ UNCHANGED <<registryVars, socketVars, pipeVars, starting>>
         /\ \A t \in Sockets \ {s} : written'[t] = written[t]
         /\ written'[s] =
              IF /\ recordingStreams[sockDev[s]] # NoProc
                 /\ ~procs[recordingStreams[sockDev[s]]].ended
              THEN Append(written[s], received'[s])
              ELSE written[s]]_vars

\* one transcoder was created and two frames were written: the second of them
\* by writeFrame alone
C15_Witness ==
  \E s \in Sockets :
    /\ Len(written[s]) >= 2
    /\ Cardinality({p \in Procs : procs[p] # FreeProc}) = 1
    /\ sockDev[s] \in DOMAIN devices
    /\ devices[sockDev[s]].socket = s

\* the startRecording a message handler was suspended in comes back in this
\* step without the handler's frame being written: the start failed
StartFailed(h) ==
  /\ h \in starting
  /\ h \notin starting'
  /\ written'[h.sock] = written[h.sock]

\* C16: a start that fails registers nothing: the device's entries in
\* activeRecordings and recordingStreams are what they were, so that the next
\* frame finds no pipeline and starts one.
C16_FailedStartRegistersNothing ==
  [][\A h \in starting :
       (StartFailed(h) /\ sockDev[h.sock] \in DeviceIds) =>
         /\ activeRecordings'[sockDev[h.sock]] = activeRecordings[sockDev[h.sock]]
         /\ recordingStreams'[sockDev[h.sock]] = recordingStreams[sockDev[h.sock]]]_vars

\* ------------------------------------------------------------ viewer claims
\* C13: a JPEG frame received from the device is sent as it is to every viewer
\* connection that is open and asked for the device's frames.
C13_FramesReachViewers ==
  [][\A s \in Sockets :
       (received'[s] = received[s] + 1 /\ sockDev[s] \in DOMAIN devices) =>
         \A v \in subscribed :
           (v \in frontendClients /\ readyState[v] = "OPEN") =>
             forwarded'[v] = Append(forwarded[v], received'[s])]_vars

\* C17: when a control message of a device is applied, no frame that the device
\* sent before it is still waiting to be handed to the pipeline.
C17_ControlAfterEarlierFrames ==
  [][(observed' # observed /\ observed'.op \in {"heartbeat", "status_update"}) =>
       \A h \in starting : sockDev[h.sock] # observed'.dev]_vars

\* ------------------------------------------------------ unknown-id claims
\* DeviceManager's two maps
Registry == [devices |-> devices, keys |-> apiKeyToDeviceId]

\* C21: updateDeviceStatus, updateDeviceConfig, updateOperationMode, setSocket
\* and removeSocket for an id that is not registered return the state they were
\* given: no entry is created in devices or apiKeyToDeviceId and nothing else
\* changes.
C21_UnknownIdIsNoOp ==
  \A d \in DeviceIds \ DOMAIN devices :
    /\ \A st \in DeviceStatus : UpdateDeviceStatus(Cur, d, st) = Cur
    /\ \A mode \in Modes :
         /\ UpdateDeviceConfig(Registry, d, [operationMode |-> mode]) = Registry
         /\ UpdateOperationMode(Registry, d, mode) = Registry
    /\ \A s \in Sockets : SetSocket(Cur, d, s) = Cur
    /\ RemoveSocket(Cur, d) = Cur

\* a heartbeat was processed, and with it updateDeviceStatus was called, for a
\* device the sweep had removed; both maps are still empty
C21_Witness ==
  /\ observed.op = "heartbeat"
  /\ ~observed.ok
  /\ observed.dev \in DeviceIds \ DOMAIN devices
  /\ devices = EmptyMap
  /\ apiKeyToDeviceId = EmptyMap

\* ------------------------------------------------------- protocol claims
\* the message processed in this step is text that is not JSON, an envelope of
\* a type handleDeviceCommand has no case for, or a status_update whose status
\* is not one of the four known
DroppedMessage ==
  /\ observed' # observed
  /\ \/ observed'.op \in {"dropped", "telemetry"}
     \/ /\ observed'.op = "status_update"
        /\ observed'.arg \notin {"online", "streaming", "entering_sleep", "offline"}

EventOf(a) ==
  \/ \E s \in Sockets, payload \in PairPayloads :
       sockDev[s] = a /\ HandleWebSocketMessage(s, payload)
  \/ \E h \in starting : sockDev[h.sock] = a /\ StartRecordingDone(h)
  \/ \E s \in Sockets : sockDev[s] = a /\ (DeviceSocketClose(s) \/ DeviceSocketError(s))

SessionUnchanged(b) ==
  /\ b \in DOMAIN devices'
  /\ devices'[b] = devices[b]
  /\ \A s \in Sockets : sockDev[s] = b => readyState'[s] = readyState[s]

PipelineUnchanged(b) ==
  /\ activeRecordings'[b] = activeRecordings[b]
  /\ recordingStreams'[b] = recordingStreams[b]
  /\ timers'[b] = timers[b]
  /\ \A p \in Procs : procs[p].dev = b => procs'[p] = procs[p]
  /\ \A s \in Sockets :
       sockDev[s] = b => written'[s] = written[s] /\ received'[s] = received[s]
  /\ {h \in starting' : sockDev[h.sock] = b} = {h \in starting : sockDev[h.sock] = b}

\* C23: a message, close or error event of the connection of device a leaves
\* the session of every other device b (status, configuration, bound socket,
\* recording flag) and b's pipeline as they were.
C23_DevicesAreIsolated ==
  [][\A a \in DOMAIN devices, b \in DOMAIN devices :
       (a # b /\ EventOf(a)) => SessionUnchanged(b) /\ PipelineUnchanged(b)]_vars

\* the connection of one device was closed and its transcoder killed while the
\* other device is still bound and streaming into its own pipeline
C23_Witness ==
  \E a \in DOMAIN devices, b \in DOMAIN devices :
    /\ a # b
    /\ devices[a].socket = NoSocket /\ devices[a].status = OFFLINE
    /\ \E p \in Procs : procs[p].dev = a /\ procs[p].killed
    /\ devices[b].socket # NoSocket /\ readyState[devices[b].socket] = "OPEN"
    /\ devices[b].status = STREAMING /\ devices[b].isRecording
    /\ activeRecordings[b] # NoProc
    /\ procs[activeRecordings[b]].state = "running"

\* C24: a viewer's subscribe request for a device that is not connected changes
\* no socket and no registry entry, so the viewer's connection stays open, and
\* while the device is not connected no step delivers a frame to a viewer that
\* subscribed.
C24_SubscribeWithoutDevice ==
  [][/\ (Observed("subscribe") /\ ~observed'.ok) =>
          UNCHANGED <<registryVars, socketVars, forwarded>>
     /\ ~Connected(ScenarioDevice) =>
          \A v \in subscribed : forwarded'[v] = forwarded[v]]_vars

\* a viewer subscribed after the device had disconnected; it is still open and
\* was sent no frame
C24_Witness ==
  /\ observed.op = "subscribe" /\ ~observed.ok
  /\ ~Connected(ScenarioDevice)
  /\ \E v \in subscribed :
       /\ v \in frontendClients
       /\ readyState[v] = "OPEN"
       /\ forwarded[v] = <<>>

\* C25: a viewer connection that has closed is in none of the sets of viewer
\* connections the server keeps: it is not in frontendClients, no broadcast goes
\* to it, and no step sends it a frame.
C25_ClosedViewerIsDropped ==
  [][\A s \in Sockets :
       /\ readyState'[s] = "CLOSED" => s \notin frontendClients'
       /\ (readyState[s] = "CLOSED" /\ sockDev[s] = NoDevice) =>
            /\ s \notin BroadcastTargets
            /\ forwarded'[s] = forwarded[s]]_vars

\* a viewer that had subscribed has closed and is gone from frontendClients
\* while the device is still connected and has sent a frame
C25_Witness ==
  \E s \in subscribed :
    /\ readyState[s] = "CLOSED"
    /\ s \notin frontendClients
    /\ Connected(ScenarioDevice)
    /\ received[ScenarioSocket] > 0

\* C26: every streaming command the server sends to a device connection is an
\* envelope whose discriminant field is `action`, with a value in
\* {start_streaming, stop_streaming, update_operation_mode, reboot, sleep}.
C26_CommandsUseAction ==
  (observed.op \in StreamOps /\ observed.ok) => CommandAction(observed.arg) \in DeviceActions

\* a step in which a connection is accepted and bound, or a text message of a
\* device is handled
BindsOrControls ==
  \/ AcceptConnection
  \/ \E s \in Sockets, payload \in ControlPayloads : HandleWebSocketMessage(s, payload)

\* C27: binding a device connection and handling control messages (heartbeat,
\* status_update, ready, error) never create a pipeline: no start is begun, no
\* command is built, no entry of activeRecordings or recordingStreams is set and
\* no restart is scheduled in such a step.
C27_OnlyFramesCreatePipelines ==
  [][(starting' # starting \/ pipeVars' # pipeVars) => ~BindsOrControls]_vars

C27_Witness ==
  \E d \in DOMAIN devices :
    /\ devices[d].socket # NoSocket
    /\ devices[d].status = ASLEEP
    /\ activeRecordings[d] = NoProc
    /\ starting = {}
    /\ \A p \in Procs : procs[p] = FreeProc
    /\ inputs = MaxInputs

\* C28: in every reachable state a device with an entry in activeRecordings has
\* a bound connection that has not closed: no pipeline is created or survives
\* after the owning connection closed, neither by a startRecording call in
\* flight at the close nor by a restart timer that fires after it.
C28_PipelineHasConnection ==
  \A d \in DeviceIds :
    activeRecordings[d] # NoProc =>
      /\ d \in DOMAIN devices
      /\ devices[d].socket # NoSocket
      /\ readyState[devices[d].socket] \in {"OPEN", "CLOSING"}

\* C29: an 'error' or 'end' event of a transcoder that is no longer the one
\* registered for its device (it was stopped, or replaced by a later start)
\* leaves the device's entries of activeRecordings and recordingStreams as they
\* are, leaves the recording flag alone while a newer pipeline is registered and
\* schedules no restart.
C29_StaleEventsAreIgnored ==
  [][\A p \in Procs :
       ((FfmpegError(p) \/ FfmpegEnd(p)) /\ activeRecordings[procs[p].dev] # p) =>
         LET d == procs[p].dev IN
         /\ activeRecordings'[d] = activeRecordings[d]
         /\ recordingStreams'[d] = recordingStreams[d]
         /\ timers'[d] = timers[d]
         /\ (activeRecordings[d] # NoProc /\ d \in DOMAIN devices) =>
              devices'[d].isRecording = devices[d].isRecording]_vars

\* C30: every transcoder that was started, has not terminated and was not asked
\* to terminate is the one registered in activeRecordings for its device.
C30_NoUnreferencedTranscoder ==
  \A p \in Procs :
    (procs[p].state \in {"spawning", "running"} /\ ~procs[p].killed) =>
      activeRecordings[procs[p].dev] = p

\* C31: when the restart timer fires and the device has a registered pipeline
\* (started by a frame that arrived during the delay), the restart leaves that
\* pipeline registered and does not terminate its transcoder.
C31_RestartSparesActivePipeline ==
  [][\A d \in DeviceIds :
       (RestartTimerFires(d) /\ activeRecordings[d] # NoProc) =>
         /\ activeRecordings'[d] = activeRecordings[d]
         /\ recordingStreams'[d] = recordingStreams[d]
         /\ procs'[activeRecordings[d]].killed = procs[activeRecordings[d]].killed]_vars

C33_FlagImpliesPipeline ==
  \A d \in DOMAIN devices : devices[d].isRecording => activeRecordings[d] # NoProc

\* C34: in every reachable state a device whose status is ONLINE or STREAMING
\* has a bound connection.
C34_OnlineImpliesBound ==
  \A d \in DOMAIN devices :
    devices[d].status \in {ONLINE, STREAMING} => devices[d].socket # NoSocket

\* C35: a heartbeat processed while the device's pipeline is registered, its
\* recording flag is true and its status is STREAMING leaves the status
\* STREAMING.
C35_HeartbeatKeepsStreaming ==
  [][\A d \in DOMAIN devices :
       (/\ Observed("heartbeat") /\ observed'.dev = d
        /\ activeRecordings[d] # NoProc
        /\ devices[d].isRecording
        /\ devices[d].status = STREAMING) =>
         devices'[d].status = STREAMING]_vars

\* C36: totalConnections increases by exactly one in a step that binds a
\* connection to the device and is changed by no other step.
C36_CounterCountsBinds ==
  [][\A d \in DOMAIN devices :
       IF d \in DOMAIN devices' /\ devices'[d].socket \notin {devices[d].socket, NoSocket}
       THEN totalConnections'[d] = totalConnections[d] + 1
       ELSE totalConnections'[d] = totalConnections[d]]_vars


\* C37: the sweep of inactive devices removes no device that has a bound
\* connection or a registered pipeline at the time of the sweep.
C37_SweepSparesLiveDevices ==
  [][\A d \in DOMAIN devices :
       (Observed("cleanup") /\ (devices[d].socket # NoSocket \/ activeRecordings[d] # NoProc))
         => d \in DOMAIN devices']_vars


\* C38: a peer that presents the credential of a registered device, in the
\* header or in the query parameter, is handled as a device connection
\* whatever its Origin or Referer: its socket is bound to the device and is not
\* put among the frontend clients.
C38_CredentialedPeerIsDevice ==
  [][(ConnectStep /\ CredentialOwners(request) # {}) =>
       /\ \E s \in Sockets :
            sockDev[s] = NoDevice /\ sockDev'[s] \in CredentialOwners(request)
       /\ frontendClients' = frontendClients]_vars


\* C39: between handlers, activeRecordings and recordingStreams hold entries
\* for the same devices.
C39_MapsHaveSameKeys ==
  \A d \in DeviceIds : (activeRecordings[d] # NoProc) <=> (recordingStreams[d] # NoProc)

====
